---------------------------- MODULE Spec2Model ----------------------------
(***************************************************************************)
(* Binary-file-viewer host extension: the custom editor provider           *)
(* (src/src/editorprovider.ts) and the extension activation                *)
(* (src/unnamed/part_000).  ParserSelect, the parser catalog and           *)
(* selector, is not part of the sources at hand; its operations are        *)
(* modelled from the specification text (sections 4.2, 4.4 and 6).         *)
(***************************************************************************)
EXTENDS Integers, Sequences, FiniteSets, TLC

(***************************************************************************)
(* Bounds of the model.                                                    *)
(***************************************************************************)
MaxTextLen == 5
MaxOutbox == 2
MaxChanges == 3
MaxFolders == 2
MaxConfigChanges == 2

(***************************************************************************)
(* Program constants.                                                      *)
(***************************************************************************)
LineCorrection == 4
lastSize == 8
lastOffset == 0

(***************************************************************************)
(* Universe: data files and parser program paths.                          *)
(***************************************************************************)
Files == {"/w/a.bin", "/w/b.dat"}
ParserPaths == {"/p/p1.js", "/p/p2.js"}
Paths == Files \cup ParserPaths
Missing == "missing"
\* Folders a user may configure: "/p" holds the parser sources; what "/q"
\* is changes: a directory, a plain file, nothing, or a symbolic link to a
\* directory.
Folders == {"/p", "/q"}
FolderKinds == {"dir", "file", "absent", "link"}
FolderLists == UNION {[1..n -> Folders] : n \in 0..MaxFolders}
DataVals == {"d1"}

VARIABLES
    \* ---- EditorProvider, one document / webview panel per opened file
    doc,          \* file -> <<>> or <<EditorDocument>>
    resolved,     \* file -> the message handler is registered on the panel
    token,        \* file -> the cancellation token of the run was raised
    inbox,        \* file -> messages from the webview not yet handled
    outbox,       \* file -> 'setData' requests posted and not yet finished
    fileData,     \* file -> bytes on disk, or Missing
    escaped,      \* an exception left a host callback uncaught
    \* ---- ParserSelect
    diagnostics,  \* parser path -> sequence of Diagnostic
    disk,         \* parser path -> the source file on disk
    catalog,      \* parser path -> <<>> or <<ParserProgram>>
    cache,        \* file -> <<>> or <<SelectionCacheEntry>>
    tested,       \* parser paths rejected by the last failed selection
    \* ---- file-system collaborator and activation handlers
    events,       \* change notifications emitted and not yet delivered
    forwarded,    \* <<>> or <<argument of the last updateIfParserFile>>
    lastCmd,      \* <<>> or <<the last 'binary-file-viewer.open' and what
                  \* selectParserFile and getTestedParserFilePaths gave it>>
    shown,        \* <<>> or <<the error message that command showed>>
    opened,       \* <<>> or <<the file that command gave to 'vscode.openWith'>>
    \* ---- history
    lastError,    \* parser path -> <<>> or <<text of the last error message>>
    lastRun,      \* file -> history of the decodes of its panel: "rerun"
                  \* when one was started with a Diagnostic of its program
                  \* outstanding and none in flight; "failed", "succeeded"
                  \* for the one finished last, "recovered" when that was
                  \* a rerun that succeeded with no message waiting
    lastOpen,     \* file -> what the last openCustomDocument of it returned:
                  \* "none" (never called), "doc", "undefined" (no parser
                  \* found) or "caught" (undefined after an exception)
    \* ---- configuration (activate, configure, getParserPaths)
    activated,    \* activate() has run
    parserFolders,\* the setting 'binary-file-viewer.parserFolders'
    folderKind,   \* folder -> what the file system holds at that path
    cfgEvents,    \* configuration-change events not yet delivered
    cfgSeq,       \* number of configuration changes made so far
    watched,      \* the directories given to the last ParserSelect.init
    initCount,    \* number of calls of ParserSelect.init so far
    lastPaths,    \* <<>> or <<the last getParserPaths call: the setting and
                  \* the file system it saw, the list returned, the error
                  \* messages shown>>
    \* ---- two's-complement accumulation in activate
    dataBuffer, pc, i, factor, value

hostVars == <<doc, resolved, token, inbox, outbox, fileData, escaped>>
selVars == <<diagnostics, disk, catalog, cache, tested>>
fsVars == <<events, forwarded, lastCmd, shown, opened>>
histVars == <<lastError, lastRun>>
decVars == <<dataBuffer, pc, i, factor, value>>
cfgVars == <<activated, parserFolders, folderKind, cfgEvents, cfgSeq, watched,
             initCount, lastPaths>>
vars == <<hostVars, selVars, fsVars, histVars, decVars, cfgVars, lastOpen>>

(***************************************************************************)
(* Text.  A string is a sequence of one-character strings.                 *)
(***************************************************************************)
NL == "\n"
Digits == {"0", "2", "7"}
Chars == {"a", ">", ":", NL} \cup Digits
Texts == UNION {[1..n -> Chars] : n \in 0..MaxTextLen}
UndefinedText == <<"u", "n", "d", "e", "f", "i", "n", "e", "d">>

DigitVal(c) ==
    CASE c = "0" -> 0 [] c = "1" -> 1 [] c = "2" -> 2 [] c = "3" -> 3
      [] c = "4" -> 4 [] c = "5" -> 5 [] c = "6" -> 6 [] c = "7" -> 7
      [] c = "8" -> 8 [] c = "9" -> 9

\* String.prototype.split('\n'): the pieces between the separators.
RECURSIVE split(_)
split(s) ==
    IF \A k \in 1..Len(s) : s[k] # NL
    THEN <<s>>
    ELSE LET k == CHOOSE k \in 1..Len(s) :
                    s[k] = NL /\ \A j \in 1..(k - 1) : s[j] # NL
         IN  <<SubSeq(s, 1, k - 1)>> \o split(SubSeq(s, k + 1, Len(s)))

\* arr[idx] of a JavaScript array: <<>> stands for undefined.
ArrayGet(arr, idx) == IF idx + 1 \in DOMAIN arr THEN <<arr[idx + 1]>> ELSE <<>>

\* The argument of RegExp.exec is converted to a string first.
ToStr(opt) == IF opt = <<>> THEN UndefinedText ELSE opt[1]

\* /.*>:(\d+)/.exec(str): <<>> for null, else <<capture group 1>>.  `.*` is
\* greedy, so the match ends at the last ">:" that a digit follows, and
\* `\d+` takes the whole run of digits there.  No character of Chars other
\* than the separator removed by split is a line terminator.
RegexExec(str) ==
    LET pos == {k \in 1..(Len(str) - 2) :
                    str[k] = ">" /\ str[k + 1] = ":" /\ str[k + 2] \in Digits}
    IN  IF pos = {} THEN <<>>
        ELSE LET k == CHOOSE k \in pos : \A j \in pos : j <= k
                 e == CHOOSE e \in (k + 2)..Len(str) :
                        /\ \A j \in (k + 2)..e : str[j] \in Digits
                        /\ (e < Len(str) => str[e + 1] \notin Digits)
             IN  <<SubSeq(str, k + 2, e)>>

\* parseInt of a non-empty run of decimal digits.
RECURSIVE parseInt(_)
parseInt(ds) ==
    IF ds = <<>> THEN 0
    ELSE 10 * parseInt(SubSeq(ds, 1, Len(ds) - 1)) + DigitVal(ds[Len(ds)])

\* Lines 71-77 of the 'customParserError' case: the reported line.
ErrorLineMut(text) ==
    LET stacks == split(text)
        match == RegexExec(ToStr(ArrayGet(stacks, 1)))
    IN  (IF match # <<>> THEN parseInt(match[1]) ELSE 0) - LineCorrection

ErrorLine(text) ==
    LET stacks == split(text)
        match == RegexExec(ToStr(ArrayGet(stacks, 1)))
    IN  IF match # <<>> THEN parseInt(match[1]) - LineCorrection ELSE 0

\* stacks[0], the summary handed to addDiagnosticsMessage.
ErrorSummary(text) == split(text)[1]


(***************************************************************************)
(* ParserSelect (modelled from the specification, sections 3, 4.2, 4.4).   *)
(***************************************************************************)
DiscoveryOrder == <<"/p/p1.js", "/p/p2.js">>

\* path.extname(filePath) without the leading '.'.
FileExt(f) == IF f = "/w/a.bin" THEN "bin" ELSE "dat"

\* path.basename(filePath).
Basename(f) == IF f = "/w/a.bin" THEN "a.bin" ELSE "b.dat"

\* A parser source on disk: present or not, its modification stamp, and the
\* metadata its text declares.
Source(r, exts, sniff) == [present |-> TRUE, rev |-> r, exts |-> exts, sniff |-> sniff]
AbsentSource(r) == [present |-> FALSE, rev |-> r, exts |-> {}, sniff |-> "none"]
\* Reading a parser source into a ParserProgram; the revision token of the
\* program is the stamp of the text read, which also identifies `contents`.
ReadParser(dsk, p) ==
    IF dsk[p].present
    THEN <<[filePath |-> p, contents |-> dsk[p].rev,
            exts |-> dsk[p].exts, sniff |-> dsk[p].sniff]>>
    ELSE <<>>

\* The sequence s restricted to the elements satisfying Keep.
RECURSIVE SelectSeqOf(_, _)
SelectSeqOf(s, keep) ==
    IF s = <<>> THEN <<>>
    ELSE (IF s[1] \in keep THEN <<s[1]>> ELSE <<>>) \o SelectSeqOf(Tail(s), keep)

\* selectParser(filePath): result, new cache and new tested list.
SelectParserFile(cat, cch, tst, f) ==
    LET hit == /\ cch[f] # <<>>
               /\ cat[cch[f][1].program] # <<>>
               /\ cat[cch[f][1].program][1].contents = cch[f][1].token
        cands == SelectSeqOf(DiscoveryOrder,
                     {p \in ParserPaths :
                         cat[p] # <<>> /\ FileExt(f) \in cat[p][1].exts})
        sniffed == SelectSeqOf(cands, {p \in ParserPaths :
                         cat[p] # <<>> /\ cat[p][1].sniff = "accept"})
        plain == SelectSeqOf(cands, {p \in ParserPaths :
                         cat[p] # <<>> /\ cat[p][1].sniff = "none"})
        chosen == IF sniffed # <<>> THEN <<sniffed[1]>>
                  ELSE IF plain # <<>> THEN <<plain[1]>> ELSE <<>>
    IN  IF hit
        THEN [parser |-> cat[cch[f][1].program], cache |-> cch, tested |-> tst]
        ELSE IF chosen # <<>>
        THEN [parser |-> cat[chosen[1]],
              cache |-> [cch EXCEPT ![f] =
                  <<[program |-> chosen[1], token |-> cat[chosen[1]][1].contents]>>],
              tested |-> tst]
        ELSE [parser |-> <<>>,
              cache |-> [cch EXCEPT ![f] = <<>>],
              tested |-> cands]

\* addDiagnosticsMessage(message, filePath, line): the collection keeps one
\* entry per path, replaced on each report.
AddDiagnosticsMessage(diags, message, filePath, line) ==
    [diags EXCEPT ![filePath] = <<[message |-> message, line |-> line]>>]

\* The directory a parser source lies in.
DirOf(p) == "/p"

Watches(dirs, p) == \E k \in DOMAIN dirs : dirs[k] = DirOf(p)

\* updateIfParserFile(paths), one path after the other.
UpdateOne(st, dsk, path) ==
    IF path \in ParserPaths /\ ~Watches(st.watched, path) THEN st
    ELSE IF path \in ParserPaths
    THEN [catalog |-> [st.catalog EXCEPT ![path] = ReadParser(dsk, path)],
          cache |-> [f \in Files |->
                        IF st.cache[f] # <<>> /\ st.cache[f][1].program = path
                        THEN <<>> ELSE st.cache[f]],
          diagnostics |-> IF dsk[path].present THEN st.diagnostics
                          ELSE [st.diagnostics EXCEPT ![path] = <<>>],
          watched |-> st.watched]
    ELSE [st EXCEPT !.cache[path] = <<>>]

RECURSIVE UpdateIfParserFile(_, _, _)
UpdateIfParserFile(st, dsk, paths) ==
    IF paths = <<>> THEN st
    ELSE UpdateIfParserFile(UpdateOne(st, dsk, paths[1]), dsk, Tail(paths))

\* init(directories) with every parser path under a configured directory.
InitCatalog(dsk) == [p \in ParserPaths |-> ReadParser(dsk, p)]

\* init(directories): the catalog is rebuilt from the sources under the
\* directories, the whole selection cache is dropped, the directories are
\* watched.
ParserSelectInit(dsk, dirs) ==
    [catalog |-> [p \in ParserPaths |->
                     IF Watches(dirs, p) THEN ReadParser(dsk, p) ELSE <<>>],
     cache |-> [f \in Files |-> <<>>],
     watched |-> dirs]

(***************************************************************************)
(* EditorProvider (src/src/editorprovider.ts).                             *)
(***************************************************************************)
Msg(command, text) == [command |-> command, text |-> text]

\* ParserSelect.selectParserFile as openCustomDocument sees it: it returns
\* a parser or none, or it throws.  What the selector does with a file it
\* cannot read is not given, so for such a file both are possible: the
\* failure is recovered into the regular result, or it propagates.
SelectOutcomes(f) ==
    LET sel == SelectParserFile(catalog, cache, tested, f)
    IN  {[threw |-> FALSE, parser |-> sel.parser,
          cache |-> sel.cache, tested |-> sel.tested]}
        \cup (IF fileData[f] = Missing
              THEN {[threw |-> TRUE, parser |-> <<>>,
                     cache |-> cache, tested |-> tested]}
              ELSE {})

\* A parser object without contents.
NoParser == [filePath |-> "", contents |-> -1, exts |-> {}, sniff |-> "none"]

\* The value openCustomDocument returns (lines 28-40) for the outcome of the
\* selection: <<>> stands for undefined.
OpenResultMut(f, sel) ==
    IF sel.threw THEN <<>>
    ELSE <<[uri |-> f,
            parser |-> IF sel.parser = <<>> THEN NoParser ELSE sel.parser[1]]>>

OpenResult(f, sel) ==
    IF sel.threw \/ sel.parser = <<>> THEN <<>>
    ELSE <<[uri |-> f, parser |-> sel.parser[1]]>>

\* openCustomDocument(uri, openContext, token): the token is not consulted.
\* The host keeps the document returned.
OpenCustomDocument(f) ==
    /\ activated
    /\ doc[f] = <<>>
    /\ \E sel \in SelectOutcomes(f) :
          /\ cache' = sel.cache
          /\ tested' = sel.tested
          /\ doc' = [doc EXCEPT ![f] = OpenResult(f, sel)]
          /\ lastOpen' = [lastOpen EXCEPT ![f] =
                 IF sel.threw THEN "caught"
                 ELSE IF sel.parser = <<>> THEN "undefined" ELSE "doc"]
    /\ UNCHANGED <<resolved, token, inbox, outbox, fileData, escaped>>
    /\ UNCHANGED <<diagnostics, disk, catalog>>
    /\ UNCHANGED <<fsVars, histVars, decVars, cfgVars>>

\* resolveCustomEditor(document, webviewPanel, token): registers the message
\* handler and sets the html; the token is not consulted.
ResolveCustomEditor(f) ==
    /\ doc[f] # <<>>
    /\ ~resolved[f]
    /\ resolved' = [resolved EXCEPT ![f] = TRUE]
    /\ UNCHANGED <<doc, token, inbox, outbox, fileData, escaped>>
    /\ UNCHANGED <<selVars, fsVars, histVars, decVars, cfgVars, lastOpen>>

\* sendDataToWebView(parser, data, webviewPanel): posts one 'setData'.
sendDataToWebView(out, parser, data) ==
    Append(out, [command |-> "setData", parser |-> parser, data |-> data])

\* case 'ready' (lines 62-68) with the file readable.
CaseReady(f) ==
    /\ outbox' = [outbox EXCEPT ![f] =
           sendDataToWebView(outbox[f], doc[f][1].parser.contents, fileData[f])]
    /\ UNCHANGED <<diagnostics, escaped>>

\* case 'customParserError' (lines 69-79).
CaseCustomParserErrorMut(f, message) ==
    /\ diagnostics' =
          IF diagnostics[doc[f][1].parser.filePath] # <<>> THEN diagnostics
          ELSE AddDiagnosticsMessage(diagnostics, ErrorSummary(message.text),
                   doc[f][1].parser.filePath, ErrorLine(message.text))
    /\ UNCHANGED <<outbox, escaped>>

CaseCustomParserError(f, message) ==
    /\ diagnostics' = AddDiagnosticsMessage(diagnostics, ErrorSummary(message.text),
                          doc[f][1].parser.filePath, ErrorLine(message.text))
    /\ UNCHANGED <<outbox, escaped>>

\* The callback given to onDidReceiveMessage, one action per case of the
\* switch.  readFileSync throws when the file is gone; the callback has no
\* handler of its own, so the exception leaves it.
OnReady(f) ==
    /\ resolved[f]
    /\ inbox[f] # <<>>
    /\ Head(inbox[f]).command = "ready"
    /\ Len(outbox[f]) < MaxOutbox
    /\ inbox' = [inbox EXCEPT ![f] = Tail(inbox[f])]
    /\ IF fileData[f] = Missing
       THEN escaped' = TRUE /\ UNCHANGED <<outbox, diagnostics>>
       ELSE CaseReady(f)
    /\ lastRun' = IF /\ fileData[f] # Missing
                     /\ outbox[f] = <<>>
                     /\ diagnostics[doc[f][1].parser.filePath] # <<>>
                  THEN [lastRun EXCEPT ![f] = "rerun"] ELSE lastRun
    /\ UNCHANGED <<doc, resolved, token, fileData>>
    /\ UNCHANGED <<disk, catalog, cache, tested>>
    /\ UNCHANGED <<fsVars, lastError, decVars, cfgVars, lastOpen>>

OnCustomParserError(f) ==
    /\ resolved[f]
    /\ inbox[f] # <<>>
    /\ Head(inbox[f]).command = "customParserError"
    /\ inbox' = [inbox EXCEPT ![f] = Tail(inbox[f])]
    /\ CaseCustomParserError(f, Head(inbox[f]))
    /\ lastError' = [lastError EXCEPT ![doc[f][1].parser.filePath] =
                        <<Head(inbox[f]).text>>]
    /\ UNCHANGED <<doc, resolved, token, fileData>>
    /\ UNCHANGED <<disk, catalog, cache, tested>>
    /\ UNCHANGED <<fsVars, lastRun, decVars, cfgVars, lastOpen>>

OnOther(f) ==
    /\ resolved[f]
    /\ inbox[f] # <<>>
    /\ Head(inbox[f]).command \notin {"ready", "customParserError"}
    /\ inbox' = [inbox EXCEPT ![f] = Tail(inbox[f])]
    /\ UNCHANGED <<doc, resolved, token, outbox, fileData, escaped>>
    /\ UNCHANGED <<selVars, fsVars, histVars, decVars, cfgVars, lastOpen>>

(***************************************************************************)
(* Environment of the provider: the host raising the token, the webview    *)
(* script, and writes to the viewed file.  The handler's effect depends on *)
(* the message alone, never on what is queued behind it, so the webview    *)
(* posts its next message once the previous one was handled.               *)
(***************************************************************************)
SampleTexts == {<<"a">>, <<"a", NL, ">", ":", "7">>}

Cancel(f) ==
    /\ doc[f] # <<>>
    /\ ~token[f]
    /\ token' = [token EXCEPT ![f] = TRUE]
    /\ UNCHANGED <<doc, resolved, inbox, outbox, fileData, escaped>>
    /\ UNCHANGED <<selVars, fsVars, histVars, decVars, cfgVars, lastOpen>>

WebviewPost(f) ==
    /\ resolved[f]
    /\ inbox[f] = <<>>
    /\ \E c \in {"ready", "other"} :
          inbox' = [inbox EXCEPT ![f] = Append(inbox[f], Msg(c, <<>>))]
    /\ UNCHANGED <<doc, resolved, token, outbox, fileData, escaped>>
    /\ UNCHANGED <<selVars, fsVars, histVars, decVars, cfgVars, lastOpen>>

WebviewSucceed(f) ==
    /\ outbox[f] # <<>>
    /\ outbox' = [outbox EXCEPT ![f] = Tail(outbox[f])]
    /\ lastRun' = [lastRun EXCEPT ![f] =
           IF lastRun[f] = "rerun" /\ \A g \in Files : inbox[g] = <<>>
           THEN "recovered" ELSE "succeeded"]
    /\ UNCHANGED <<doc, resolved, token, inbox, fileData, escaped>>
    /\ UNCHANGED <<selVars, fsVars, lastError, decVars, cfgVars, lastOpen>>

WebviewFail(f) ==
    /\ outbox[f] # <<>>
    /\ inbox[f] = <<>>
    /\ outbox' = [outbox EXCEPT ![f] = Tail(outbox[f])]
    /\ \E t \in SampleTexts :
          inbox' = [inbox EXCEPT ![f] = Append(inbox[f], Msg("customParserError", t))]
    /\ lastRun' = [lastRun EXCEPT ![f] = "failed"]
    /\ UNCHANGED <<doc, resolved, token, fileData, escaped>>
    /\ UNCHANGED <<selVars, fsVars, lastError, decVars, cfgVars, lastOpen>>

FileWrite(f) ==
    /\ \E d \in (DataVals \cup {Missing}) \ {fileData[f]} :
          fileData' = [fileData EXCEPT ![f] = d]
    /\ UNCHANGED <<doc, resolved, token, inbox, outbox, escaped>>
    /\ UNCHANGED <<selVars, fsVars, histVars, decVars, cfgVars, lastOpen>>

(***************************************************************************)
(* Activation (src/unnamed/part_000): the open command and the handlers of *)
(* the file events.                                                        *)
(***************************************************************************)
\* The text built at lines 110-116, as the sequence of its pieces.
RECURSIVE TriedLines(_)
TriedLines(parserPaths) ==
    IF parserPaths = <<>> THEN <<>>
    ELSE <<NL, parserPaths[1]>> \o TriedLines(Tail(parserPaths))

NoParserMessageMut(filePath, parserPaths) ==
    <<"Binary-File-Viewer: No parser available for '", Basename(filePath), "'.\n">>
        \o (IF Len(parserPaths) > 1
            THEN <<"Tried parser(s): ">> \o TriedLines(parserPaths) ELSE <<>>)

NoParserMessage(filePath, parserPaths) ==
    <<"Binary-File-Viewer: No parser available for '", Basename(filePath), "'.\n">>
        \o (IF Len(parserPaths) > 0
            THEN <<"Tried parser(s): ">> \o TriedLines(parserPaths) ELSE <<>>)

\* Command 'binary-file-viewer.open' (lines 104-123).
OpenCommand(f) ==
    /\ activated
    /\ LET sel == SelectParserFile(catalog, cache, tested, f)
       IN  /\ cache' = sel.cache
           /\ tested' = sel.tested
           /\ lastCmd' = <<[uri |-> f, found |-> sel.parser # <<>>, tried |-> sel.tested]>>
           /\ IF sel.parser = <<>>
              THEN /\ shown' = <<NoParserMessage(f, sel.tested)>>
                   /\ opened' = <<>>
              ELSE /\ shown' = <<>>
                   /\ opened' = <<f>>
    /\ UNCHANGED <<hostVars, diagnostics, disk, catalog>>
    /\ UNCHANGED <<events, forwarded, histVars, decVars, cfgVars, lastOpen>>

\* What each handler hands to updateIfParserFile.
SavedPathsMut(e) == <<>>

SavedPaths(e) == <<e.files[1]>>

DeletedPathsMut(e) == <<>>

DeletedPaths(e) == e.files

CreatedPaths(e) == e.files

RECURSIVE MergeRenamedMut(_)
MergeRenamedMut(files) ==
    IF files = <<>> THEN <<>>
    ELSE <<files[1].newUri>> \o MergeRenamedMut(Tail(files))

RECURSIVE MergeRenamed(_)
MergeRenamed(files) ==
    IF files = <<>> THEN <<>>
    ELSE <<files[1].newUri, files[1].oldUri>> \o MergeRenamed(Tail(files))

RenamedPathsMut(e) == MergeRenamedMut(e.files)

RenamedPaths(e) == MergeRenamed(e.files)

\* The call ParserSelect.updateIfParserFile(paths) made by a handler for the
\* notification at the head of the delivery queue.
Forward(paths) ==
    /\ LET st == UpdateIfParserFile(
                    [catalog |-> catalog, cache |-> cache,
                     diagnostics |-> diagnostics, watched |-> watched],
                    disk, paths)
       IN  /\ catalog' = st.catalog
           /\ cache' = st.cache
           /\ diagnostics' = st.diagnostics
    /\ forwarded' = <<paths>>
    /\ events' = Tail(events)
    /\ UNCHANGED <<hostVars, disk, tested>>
    /\ UNCHANGED <<lastCmd, shown, opened, histVars, decVars, cfgVars, lastOpen>>

OnDidSaveTextDocument ==
    /\ events # <<>> /\ Head(events).kind = "save"
    /\ Forward(SavedPaths(Head(events)))

OnDidDeleteFiles ==
    /\ events # <<>> /\ Head(events).kind = "delete"
    /\ Forward(DeletedPaths(Head(events)))

OnDidCreateFiles ==
    /\ events # <<>> /\ Head(events).kind = "create"
    /\ Forward(CreatedPaths(Head(events)))

OnDidRenameFiles ==
    /\ events # <<>> /\ Head(events).kind = "rename"
    /\ Forward(RenamedPaths(Head(events)))

(***************************************************************************)
(* Configuration (src/unnamed/part_000): getParserPaths, the call of       *)
(* ParserSelect.init in activate, and configure.                           *)
(***************************************************************************)
\* fs.existsSync(folder): follows a symbolic link.
ExistsSync(kinds, folder) == kinds[folder] # "absent"

\* fs.lstatSync(folder).isDirectory(): does not follow a symbolic link.
LstatIsDirectory(kinds, folder) == kinds[folder] = "dir"

NotExistMessage(folder) == <<"Settings: The path '", folder, "' does not exist.">>
NotDirMessage(folder) == <<"Settings: The path '", folder, "' is not a directory.">>

\* The loop of getParserPaths (lines 180-195) over the entries left.
RECURSIVE ParserPathsLoopMut(_, _, _)
ParserPathsLoopMut(folders, kinds, acc) ==
    IF folders = <<>> THEN acc
    ELSE LET folder == folders[1]
         IN  IF ~ExistsSync(kinds, folder)
             THEN ParserPathsLoopMut(Tail(folders), kinds,
                      [acc EXCEPT !.shown = Append(@, NotExistMessage(folder))])
             ELSE ParserPathsLoopMut(Tail(folders), kinds,
                      [acc EXCEPT !.correctFolders = Append(@, folder)])

RECURSIVE ParserPathsLoop(_, _, _)
ParserPathsLoop(folders, kinds, acc) ==
    IF folders = <<>> THEN acc
    ELSE LET folder == folders[1]
         IN  IF ~ExistsSync(kinds, folder)
             THEN ParserPathsLoop(Tail(folders), kinds,
                      [acc EXCEPT !.shown = Append(@, NotExistMessage(folder))])
             ELSE IF ~LstatIsDirectory(kinds, folder)
             THEN ParserPathsLoop(Tail(folders), kinds,
                      [acc EXCEPT !.shown = Append(@, NotDirMessage(folder))])
             ELSE ParserPathsLoop(Tail(folders), kinds,
                      [acc EXCEPT !.correctFolders = Append(@, folder)])

\* getParserPaths() (lines 176-197): the list returned and the messages
\* shown, for the setting `folders` and the file system `kinds`.
getParserPathsMut(folders, kinds) ==
    ParserPathsLoopMut(folders, kinds, [correctFolders |-> <<>>, shown |-> <<>>])

getParserPaths(folders, kinds) ==
    ParserPathsLoop(folders, kinds, [correctFolders |-> <<>>, shown |-> <<>>])

\* `const parserFolders = getParserPaths(); ParserSelect.init(parserFolders);`
\* (lines 67-70 and 163-165).
InitParsers ==
    LET r == getParserPaths(parserFolders, folderKind)
        st == ParserSelectInit(disk, r.correctFolders)
    IN  /\ catalog' = st.catalog
        /\ cache' = st.cache
        /\ watched' = st.watched
        /\ initCount' = initCount + 1
        /\ lastPaths' = <<[folders |-> parserFolders, kinds |-> folderKind,
                           returned |-> r.correctFolders, shown |-> r.shown]>>

\* activate(), lines 63-70; the provider, the command and the handlers are
\* registered by the rest of it.
Activate ==
    /\ ~activated
    /\ activated' = TRUE
    /\ InitParsers
    /\ UNCHANGED <<hostVars, diagnostics, disk, tested, fsVars, histVars, decVars>>
    /\ UNCHANGED <<parserFolders, folderKind, cfgEvents, cfgSeq, lastOpen>>

\* configure(context, event), lines 159-168.
ConfigureMut(event) == InitParsers

Configure(event) ==
    IF event.affects
    THEN InitParsers
    ELSE UNCHANGED <<catalog, cache, watched, initCount, lastPaths>>

\* The handler of onDidChangeConfiguration, lines 150-152.
OnDidChangeConfiguration ==
    /\ cfgEvents # <<>>
    /\ Configure(Head(cfgEvents))
    /\ cfgEvents' = Tail(cfgEvents)
    /\ UNCHANGED <<hostVars, diagnostics, disk, tested, fsVars, histVars, decVars>>
    /\ UNCHANGED <<activated, parserFolders, folderKind, cfgSeq, lastOpen>>

\* The user and the file system: the setting is edited (the event answers
\* affectsConfiguration('binary-file-viewer.parserFolders') with true),
\* another setting is edited, a configured path changes its kind.
ChangeParserFolders(l) ==
    /\ activated
    /\ cfgSeq < MaxConfigChanges
    /\ l # parserFolders
    /\ parserFolders' = l
    /\ cfgEvents' = Append(cfgEvents, [affects |-> TRUE])
    /\ cfgSeq' = cfgSeq + 1
    /\ UNCHANGED <<hostVars, selVars, fsVars, histVars, decVars>>
    /\ UNCHANGED <<activated, folderKind, watched, initCount, lastPaths, lastOpen>>

ChangeOtherSetting ==
    /\ activated
    /\ cfgSeq < MaxConfigChanges
    /\ cfgEvents' = Append(cfgEvents, [affects |-> FALSE])
    /\ cfgSeq' = cfgSeq + 1
    /\ UNCHANGED <<hostVars, selVars, fsVars, histVars, decVars>>
    /\ UNCHANGED <<activated, parserFolders, folderKind, watched, initCount,
                   lastPaths, lastOpen>>

FolderChange(d) ==
    /\ d # "/p"
    /\ \E k \in FolderKinds \ {folderKind[d]} :
          folderKind' = [folderKind EXCEPT ![d] = k]
    /\ UNCHANGED <<hostVars, selVars, fsVars, histVars, decVars>>
    /\ UNCHANGED <<activated, parserFolders, cfgEvents, cfgSeq, watched,
                   initCount, lastPaths, lastOpen>>

(***************************************************************************)
(* The file-system collaborator: a change of parser sources on disk and    *)
(* its notification.  Each change advances the stamp of the paths it       *)
(* touches; MaxChanges bounds the changes of one run.                      *)
(***************************************************************************)
Metas == {[exts |-> {"bin", "dat"}, sniff |-> "none"],
          [exts |-> {"bin"}, sniff |-> "reject"]}

\* The non-empty sequences of distinct elements of S.
Batches(S) ==
    {b \in UNION {[1..n -> S] : n \in 1..Cardinality(S)} :
        \A j, k \in DOMAIN b : j # k => b[j] # b[k]}

Present(p) == disk[p].present
\* The number of changes made to parser sources so far.
Changes == disk["/p/p1.js"].rev + disk["/p/p2.js"].rev
CanChange(n) == Changes + n <= MaxChanges


Emit(kind, files) ==
    /\ Len(events) < MaxChanges
    /\ events' = Append(events, [kind |-> kind, files |-> files])

FsSave(p) ==
    /\ Present(p) /\ CanChange(1)
    /\ \E m \in Metas :
          disk' = [disk EXCEPT ![p] = Source(disk[p].rev + 1, m.exts, m.sniff)]
    /\ Emit("save", <<p>>)
    /\ UNCHANGED <<hostVars, diagnostics, catalog, cache, tested>>
    /\ UNCHANGED <<forwarded, lastCmd, shown, opened, histVars, decVars, cfgVars, lastOpen>>

FsDelete(b) ==
    /\ \A k \in DOMAIN b : Present(b[k])
    /\ CanChange(Len(b))
    /\ disk' = [p \in ParserPaths |->
                  IF \E k \in DOMAIN b : b[k] = p
                  THEN AbsentSource(disk[p].rev + 1) ELSE disk[p]]
    /\ Emit("delete", b)
    /\ UNCHANGED hostVars
    /\ UNCHANGED <<diagnostics, catalog, cache, tested>>
    /\ UNCHANGED <<forwarded, lastCmd, shown, opened, histVars, decVars, cfgVars, lastOpen>>

FsCreate(b) ==
    /\ \A k \in DOMAIN b : ~Present(b[k])
    /\ CanChange(Len(b))
    /\ \E m \in Metas :
          disk' = [p \in ParserPaths |->
                      IF \E k \in DOMAIN b : b[k] = p
                      THEN Source(disk[p].rev + 1, m.exts, m.sniff) ELSE disk[p]]
    /\ Emit("create", b)
    /\ UNCHANGED hostVars
    /\ UNCHANGED <<diagnostics, catalog, cache, tested>>
    /\ UNCHANGED <<forwarded, lastCmd, shown, opened, histVars, decVars, cfgVars, lastOpen>>

\* A rename moves a parser source to the other parser path.
Renames == {r \in [oldUri : ParserPaths, newUri : ParserPaths] : r.oldUri # r.newUri}

FsRename(b) ==
    /\ \A k \in DOMAIN b : Present(b[k].oldUri) /\ ~Present(b[k].newUri)
    /\ CanChange(2 * Len(b))
    /\ disk' = [p \in ParserPaths |->
                  IF \E k \in DOMAIN b : b[k].oldUri = p
                  THEN AbsentSource(disk[p].rev + 1)
                  ELSE IF \E k \in DOMAIN b : b[k].newUri = p
                  THEN LET k == CHOOSE k \in DOMAIN b : b[k].newUri = p
                       IN  Source(disk[p].rev + 1, disk[b[k].oldUri].exts,
                                  disk[b[k].oldUri].sniff)
                  ELSE disk[p]]
    /\ Emit("rename", b)
    /\ UNCHANGED hostVars
    /\ UNCHANGED <<diagnostics, catalog, cache, tested>>
    /\ UNCHANGED <<forwarded, lastCmd, shown, opened, histVars, decVars, cfgVars, lastOpen>>

(***************************************************************************)
(* The two's-complement accumulation of activate (part_000, lines 22-48).  *)
(* `value` and `factor` are JavaScript numbers: IEEE-754 doubles, integral *)
(* here.  A number is held exactly as three limbs <<l0, l1, l2>> standing  *)
(* for l0 + l1 * 2^24 + l2 * 2^48, and every addition rounds its exact     *)
(* result to the 53 significant bits of a double, ties to even.            *)
(***************************************************************************)
Limb == 4096 * 4096
\* 52 stored bits and the implicit leading one.
MantissaBits == 52 + 1
Zero == <<0, 0, 0>>
One == <<1, 0, 0>>

RECURSIVE Pow2(_)
Pow2(n) == IF n = 0 THEN 1 ELSE 2 * Pow2(n - 1)

RECURSIVE BitLen(_)
BitLen(n) == IF n = 0 THEN 0 ELSE 1 + BitLen(n \div 2)

\* Carries propagated; the top limb is not bounded.
Normalize(x) ==
    LET y0 == x[1] % Limb
        x1 == x[2] + (x[1] \div Limb)
        y1 == x1 % Limb
        y2 == x[3] + (x1 \div Limb)
    IN  <<y0, y1, y2>>

\* The exact sum.
ExactAdd(a, b) == Normalize(<<a[1] + b[1], a[2] + b[2], a[3] + b[3]>>)

NumBits(x) ==
    IF x[3] > 0 THEN 48 + BitLen(x[3])
    ELSE IF x[2] > 0 THEN 24 + BitLen(x[2]) ELSE BitLen(x[1])

\* Round-to-nearest, ties-to-even, of an exact integer below 2^65 to a
\* double: the bits dropped all lie in the lowest limb.
RoundDouble(x) ==
    IF NumBits(x) <= MantissaBits THEN x
    ELSE LET q == Pow2(NumBits(x) - MantissaBits)
             r == x[1] % q
             odd == (x[1] \div q) % 2 = 1
             up == 2 * r > q \/ (2 * r = q /\ odd)
         IN  IF up THEN Normalize(<<x[1] - r + q, x[2], x[3]>>)
             ELSE <<x[1] - r, x[2], x[3]>>

\* a + b of two doubles.
NumAdd(a, b) == RoundDouble(ExactAdd(a, b))

\* 256^k, exact in a double for k <= 8.
Pow256(k) ==
    IF k % 3 = 0 THEN [j \in 1..3 |-> IF j = (k \div 3) + 1 THEN 1 ELSE 0]
    ELSE IF k % 3 = 1 THEN [j \in 1..3 |-> IF j = (k \div 3) + 1 THEN 256 ELSE 0]
    ELSE [j \in 1..3 |-> IF j = (k \div 3) + 1 THEN 65536 ELSE 0]

\* factor * c for factor = 256^k and 0 <= c <= 255: eight significant bits,
\* exact.
Scale(fac, c) == Normalize(<<fac[1] * c, fac[2] * c, fac[3] * c>>)

\* The buffers decoded: every width up to lastSize, the most significant
\* byte with its sign bit set.
LowBytes == {0, 253, 254, 255}
HighBytes == {128, 255}
Buffers ==
    UNION {{b \in [1..n -> LowBytes \cup HighBytes] :
                b[n] \in HighBytes /\ \A k \in 1..(n - 1) : b[k] \in LowBytes} :
           n \in 1..lastSize}

\* Lines 41-42.
DecodeStart ==
    /\ pc = "start"
    /\ factor' = One
    /\ value' = Zero
    /\ i' = 0
    /\ pc' = "loop"
    /\ UNCHANGED <<dataBuffer, hostVars, selVars, fsVars, histVars, cfgVars, lastOpen>>

\* One iteration of the loop, lines 43-46.
DecodeLoop ==
    /\ pc = "loop"
    /\ i < Len(dataBuffer)
    /\ value' = NumAdd(value, Scale(factor, 255 - dataBuffer[lastOffset + i + 1]))
    /\ factor' = Scale(factor, 256)
    /\ i' = i + 1
    /\ UNCHANGED <<pc, dataBuffer, hostVars, selVars, fsVars, histVars, cfgVars, lastOpen>>

\* Leaving the loop and line 47, value++.
DecodeIncrement ==
    /\ pc = "loop"
    /\ ~(i < Len(dataBuffer))
    /\ value' = NumAdd(value, One)
    /\ pc' = "done"
    /\ UNCHANGED <<i, factor, dataBuffer, hostVars, selVars, fsVars, histVars, cfgVars, lastOpen>>

(***************************************************************************)
(* Initial states.                                                         *)
(***************************************************************************)
InitDisks ==
    { [p \in ParserPaths |-> IF p = "/p/p1.js" THEN Source(0, {"bin"}, "none")
                                              ELSE Source(0, {"dat"}, "none")],
      [p \in ParserPaths |-> IF p = "/p/p1.js" THEN Source(0, {"bin"}, "none")
                                              ELSE AbsentSource(0)],
      [p \in ParserPaths |-> IF p = "/p/p1.js" THEN Source(0, {"bin", "dat"}, "none")
                                              ELSE AbsentSource(0)] }

HostInit ==
    /\ doc = [f \in Files |-> <<>>]
    /\ resolved = [f \in Files |-> FALSE]
    /\ token = [f \in Files |-> FALSE]
    /\ inbox = [f \in Files |-> <<>>]
    /\ outbox = [f \in Files |-> <<>>]
    /\ fileData = [f \in Files |-> "d1"]
    /\ escaped = FALSE

\* activate(): ParserSelect.init over the configured folders.
SelInit ==
    /\ disk \in InitDisks
    /\ catalog = InitCatalog(disk)
    /\ cache = [f \in Files |-> <<>>]
    /\ tested = <<>>
    /\ diagnostics = [p \in ParserPaths |-> <<>>]

FsInit ==
    /\ events = <<>>
    /\ lastCmd = <<>>
    /\ forwarded = <<>>
    /\ shown = <<>>
    /\ opened = <<>>

HistInit ==
    /\ lastError = [p \in ParserPaths |-> <<>>]
    /\ lastRun = [f \in Files |-> "none"]

DecIdle ==
    /\ dataBuffer = <<>>
    /\ pc = "idle"
    /\ i = 0
    /\ factor = Zero
    /\ value = Zero

\* After activate() with the setting <<"/p">>.
CfgActive ==
    /\ activated = TRUE
    /\ parserFolders = <<"/p">>
    /\ folderKind = [d \in Folders |-> IF d = "/p" THEN "dir" ELSE "absent"]
    /\ cfgEvents = <<>>
    /\ cfgSeq = 0
    /\ watched = <<"/p">>
    /\ initCount = 1
    /\ lastPaths = <<[folders |-> parserFolders, kinds |-> folderKind,
                      returned |-> <<"/p">>, shown |-> <<>>]>>

OpenInit == lastOpen = [f \in Files |-> "none"]

Init == HostInit /\ SelInit /\ FsInit /\ HistInit /\ DecIdle /\ CfgActive /\ OpenInit

Next ==
    \E f \in Files :
        \/ OpenCustomDocument(f)
        \/ ResolveCustomEditor(f)
        \/ Cancel(f)
        \/ WebviewPost(f)
        \/ WebviewSucceed(f)
        \/ WebviewFail(f)
        \/ OnReady(f)
        \/ OnCustomParserError(f)
        \/ OnOther(f)
        \/ FileWrite(f)

Spec == Init /\ [][Next]_vars

(***************************************************************************)
(* Translation of one failure text: a panel is open on a.bin and the       *)
(* webview has posted a 'customParserError' with an arbitrary text.        *)
(***************************************************************************)
TranslateInit ==
    /\ SelInit /\ FsInit /\ HistInit /\ DecIdle /\ CfgActive /\ OpenInit
    /\ doc = [f \in Files |-> IF f = "/w/a.bin"
                 THEN <<[uri |-> f, parser |-> catalog["/p/p1.js"][1]]>> ELSE <<>>]
    /\ resolved = [f \in Files |-> f = "/w/a.bin"]
    /\ token = [f \in Files |-> FALSE]
    /\ \E t \in Texts :
          inbox = [f \in Files |-> IF f = "/w/a.bin"
                      THEN <<Msg("customParserError", t)>> ELSE <<>>]
    /\ outbox = [f \in Files |-> <<>>]
    /\ fileData = [f \in Files |-> "d1"]
    /\ escaped = FALSE

TranslateNext == \E f \in Files : OnCustomParserError(f)

SpecTranslate == TranslateInit /\ [][TranslateNext]_vars


(***************************************************************************)
(* Selection and file events: the catalog follows the disk through the     *)
(* notifications, files are opened by the command and by the host.         *)
(***************************************************************************)
SelectNext ==
    \/ \E f \in Files : OpenCommand(f)
    \/ \E f \in Files : OpenCustomDocument(f)
    \/ \E p \in ParserPaths : FsSave(p)
    \/ \E b \in Batches(ParserPaths) : FsDelete(b)
    \/ \E b \in Batches(ParserPaths) : FsCreate(b)
    \/ \E b \in Batches(Renames) : FsRename(b)
    \/ OnDidSaveTextDocument
    \/ OnDidDeleteFiles
    \/ OnDidCreateFiles
    \/ OnDidRenameFiles

SpecSelect == Init /\ [][SelectNext]_vars

(***************************************************************************)
(* The accumulation over every buffer of Buffers.                          *)
(***************************************************************************)
DecodeInit ==
    /\ HostInit /\ SelInit /\ FsInit /\ HistInit /\ CfgActive /\ OpenInit
    /\ dataBuffer \in Buffers
    /\ pc = "start"
    /\ i = 0
    /\ factor = Zero
    /\ value = Zero

DecodeNext == DecodeStart \/ DecodeLoop \/ DecodeIncrement

SpecDecode == DecodeInit /\ [][DecodeNext]_vars

(***************************************************************************)
(* Configuration: from before activate() on, the setting and the folders   *)
(* change, files are opened.                                               *)
(***************************************************************************)
ConfigInit ==
    /\ HostInit /\ FsInit /\ HistInit /\ DecIdle /\ OpenInit
    /\ disk \in {d \in InitDisks : \A p \in ParserPaths : d[p].present}
    /\ catalog = [p \in ParserPaths |-> <<>>]
    /\ cache = [f \in Files |-> <<>>]
    /\ tested = <<>>
    /\ diagnostics = [p \in ParserPaths |-> <<>>]
    /\ activated = FALSE
    /\ parserFolders \in FolderLists
    /\ folderKind \in {k \in [Folders -> FolderKinds] : k["/p"] = "dir"}
    /\ cfgEvents = <<>>
    /\ cfgSeq = 0
    /\ watched = <<>>
    /\ initCount = 0
    /\ lastPaths = <<>>

ConfigNext ==
    \/ Activate
    \/ OnDidChangeConfiguration
    \/ \E l \in FolderLists : ChangeParserFolders(l)
    \/ ChangeOtherSetting
    \/ \E d \in Folders : FolderChange(d)
    \/ \E f \in Files : OpenCustomDocument(f)

SpecConfig == ConfigInit /\ [][ConfigNext]_vars

(***************************************************************************)
(* One document: a.bin is opened and shown while its parser source is      *)
(* saved, the saves are delivered, and the parserFolders setting changes.  *)
(***************************************************************************)
TheFile == "/w/a.bin"
TheParser == "/p/p1.js"

CaptureNext ==
    \/ OpenCustomDocument(TheFile)
    \/ ResolveCustomEditor(TheFile)
    \/ WebviewPost(TheFile)
    \/ WebviewSucceed(TheFile)
    \/ WebviewFail(TheFile)
    \/ OnReady(TheFile)
    \/ OnCustomParserError(TheFile)
    \/ OnOther(TheFile)
    \/ FileWrite(TheFile)
    \/ FsSave(TheParser)
    \/ OnDidSaveTextDocument
    \/ \E l \in {<<>>, <<DirOf(TheParser)>>} : ChangeParserFolders(l)
    \/ OnDidChangeConfiguration

SpecCapture == Init /\ [][CaptureNext]_vars

(***************************************************************************)
(* Properties.                                                             *)
(***************************************************************************)
\* The text up to the first separator.
FirstLine(t) ==
    LET n == CHOOSE n \in 1..(Len(t) + 1) :
                /\ \A j \in 1..(n - 1) : t[j] # NL
                /\ (n <= Len(t) => t[n] = NL)
    IN  SubSeq(t, 1, n - 1)

HasSecondEntry(t) == \E k \in 1..Len(t) : t[k] = NL

\* The text between the first separator and the second one (or the end).
SecondEntry(t) ==
    LET rest == SubSeq(t, Len(FirstLine(t)) + 2, Len(t)) IN FirstLine(rest)

\* fr holds ">:" followed by a digit at position k.
MatchAt(fr, k) ==
    /\ k + 2 <= Len(fr)
    /\ fr[k] = ">" /\ fr[k + 1] = ":" /\ fr[k + 2] \in Digits

FrameMatches(fr) == \E k \in 1..Len(fr) : MatchAt(fr, k)

RECURSIVE Pow10(_)
Pow10(n) == IF n = 0 THEN 1 ELSE 10 * Pow10(n - 1)

\* n is the number written by the digits that follow the last ">:" of fr.
FrameNumber(fr, n) ==
    \E k \in 1..Len(fr) : \E e \in (k + 2)..Len(fr) :
        /\ MatchAt(fr, k)
        /\ \A j \in (k + 1)..Len(fr) : ~MatchAt(fr, j)
        /\ \A j \in (k + 2)..e : fr[j] \in Digits
        /\ (e < Len(fr) => fr[e + 1] \notin Digits)
        /\ n = LET RECURSIVE sum(_)
                   sum(j) == IF j > e THEN 0
                             ELSE DigitVal(fr[j]) * Pow10(e - j) + sum(j + 1)
               IN  sum(k + 2)

\* C1: for every failure text handled, the summary given to the diagnostics
\* sink is the first line of the text; the line is 0 whenever the second
\* stack-frame entry is missing or does not match (no offset applied to the
\* default); otherwise it is recovered from the number after the last ">:"
\* of the second entry.
C1_Translation ==
    \A p \in ParserPaths :
        lastError[p] # <<>> =>
            LET t == lastError[p][1]
                d == diagnostics[p]
                matches == HasSecondEntry(t) /\ FrameMatches(SecondEntry(t))
            IN  /\ Len(d) = 1
                /\ d[1].message = FirstLine(t)
                /\ (~matches => d[1].line = 0)
                /\ (matches => FrameNumber(SecondEntry(t), d[1].line + LineCorrection))

C1_Witness ==
    \E p \in ParserPaths :
        /\ lastError[p] # <<>>
        /\ diagnostics[p] # <<>>
        /\ HasSecondEntry(lastError[p][1])
        /\ FrameMatches(SecondEntry(lastError[p][1]))
        /\ Len(FirstLine(lastError[p][1])) > 0

\* The panels whose document was resolved to parser program p.
ViewsOf(p) == {f \in Files : doc[f] # <<>> /\ doc[f][1].parser.filePath = p}

\* C2: after any sequence of 'customParserError' messages for one parser
\* program path the collection holds exactly one Diagnostic for the path,
\* the one of the most recent message.
C2_OneDiagnosticPerPath ==
    \A p \in ParserPaths :
        /\ Len(diagnostics[p]) <= 1
        /\ lastError[p] # <<>> =>
              diagnostics[p] = <<[message |-> FirstLine(lastError[p][1]),
                                  line |-> ErrorLine(lastError[p][1])]>>

\* Two panels share the program and an error of each was handled.
C2_Witness ==
    \E p \in ParserPaths :
        /\ Cardinality(ViewsOf(p)) = 2
        /\ \A f \in ViewsOf(p) : lastRun[f] = "failed" /\ inbox[f] = <<>>
        /\ diagnostics[p] # <<>>

\* C3: once a parser program with an outstanding Diagnostic has run again
\* and succeeded, no Diagnostic remains for it.
C3_ClearedOnSuccess ==
    \A p \in ParserPaths :
        ( \E f \in ViewsOf(p) :
              /\ lastRun[f] = "recovered"
              /\ inbox[f] = <<>> /\ outbox[f] = <<>>
              /\ \A g \in ViewsOf(p) \ {f} :
                    lastRun[g] = "none" /\ inbox[g] = <<>> /\ outbox[g] = <<>> )
        => diagnostics[p] = <<>>

\* C4: once the cancellation token of a run is raised, the run reads the
\* file no more, sends no further 'setData' and produces no Diagnostic.
C4_CancelHonored ==
    [][\A f \in Files :
          (token[f] /\ inbox[f] # <<>> /\ inbox'[f] = Tail(inbox[f])) =>
              /\ Len(outbox'[f]) <= Len(outbox[f])
              /\ escaped' = escaped
              /\ diagnostics' = diagnostics]_vars

\* C5: at most one 'setData' execution is outstanding per document.
C5_OneInFlight == \A f \in Files : Len(outbox[f]) <= 1

\* C6: once the save of a parser source has been delivered to
\* updateIfParserFile, the next selection for any file, in particular one
\* resolved to that program before, yields the program as it is on disk.
C6_RecomputeAfterSave ==
    events = <<>> =>
        \A f \in Files :
            LET r == SelectParserFile(catalog, cache, tested, f).parser
            IN  r # <<>> =>
                    /\ disk[r[1].filePath].present
                    /\ r[1].contents = disk[r[1].filePath].rev

\* A document captured the program, the program was saved, the save was
\* delivered, and the file was resolved to the same program again.
C6_Witness ==
    \E f \in Files :
        /\ doc[f] # <<>> /\ cache[f] # <<>>
        /\ cache[f][1].program = doc[f][1].parser.filePath
        /\ cache[f][1].token > doc[f][1].parser.contents
        /\ disk[cache[f][1].program].present
        /\ events = <<>>

\* The paths a notification is about.
Affected(e) ==
    IF e.kind = "rename"
    THEN UNION {{e.files[k].oldUri, e.files[k].newUri} : k \in DOMAIN e.files}
    ELSE {e.files[k] : k \in DOMAIN e.files}

\* C7: the handler of a notification hands updateIfParserFile, in one call,
\* exactly the paths the notification is about; for a rename, the old and
\* the new path of every renamed file.
C7_AllPathsForwarded ==
    [][(events # <<>> /\ events' = Tail(events)) =>
          /\ forwarded' # <<>>
          /\ {forwarded'[1][k] : k \in DOMAIN forwarded'[1]} = Affected(Head(events))]_vars

C7_Witness ==
    \E r \in Renames :
        /\ forwarded = << <<r.newUri, r.oldUri>> >>
        /\ ~disk[r.oldUri].present /\ disk[r.newUri].present
        /\ catalog[r.oldUri] = <<>> /\ catalog[r.newUri] # <<>>

C9_OpenCommand ==
    lastCmd # <<>> =>
        LET c == lastCmd[1] IN
        /\ ~c.found =>
              /\ opened = <<>>
              /\ shown # <<>>
              /\ \E k \in DOMAIN shown[1] : shown[1][k] = Basename(c.uri)
              /\ (\E k \in DOMAIN shown[1] : shown[1][k] = "Tried parser(s): ")
                     <=> c.tried # <<>>
              /\ \A j \in DOMAIN c.tried :
                     \E k \in DOMAIN shown[1] : shown[1][k] = c.tried[j]
        /\ c.found => opened = <<c.uri>> /\ shown = <<>>
        /\ opened # <<>> => c.found

C9_Witness ==
    /\ lastCmd # <<>> /\ ~lastCmd[1].found
    /\ Len(lastCmd[1].tried) = 1
    /\ shown # <<>> /\ opened = <<>>

\* The unsigned base-256 value of little-endian bytes, exact.
RECURSIVE Unsigned(_, _)
Unsigned(bytes, k) ==
    IF k > Len(bytes) THEN Zero
    ELSE ExactAdd(Scale(Pow256(k - 1), bytes[k]), Unsigned(bytes, k + 1))

Nth(S, k) == CHOOSE j \in S : Cardinality({m \in S : m < j}) = k - 1

\* C12: getParserPaths returns exactly the configured entries that exist and
\* are directories, in the configured order and nothing else; each other
\* entry is left out and gets exactly one message, which names it; the
\* list returned is the list ParserSelect.init receives.
C12_ParserPaths ==
    lastPaths # <<>> =>
        LET c == lastPaths[1]
            valid == {j \in DOMAIN c.folders : c.kinds[c.folders[j]] = "dir"}
            invalid == DOMAIN c.folders \ valid
        IN  /\ Len(c.returned) = Cardinality(valid)
            /\ \A k \in DOMAIN c.returned :
                   c.returned[k] = c.folders[Nth(valid, k)]
            /\ Len(c.shown) = Cardinality(invalid)
            /\ \A k \in DOMAIN c.shown :
                   c.shown[k][2] = c.folders[Nth(invalid, k)]
            /\ watched = c.returned

\* A configure() call saw a directory and a path that is none.
C12_Witness ==
    /\ lastPaths # <<>>
    /\ initCount >= 2
    /\ Len(lastPaths[1].folders) = 2
    /\ lastPaths[1].returned = <<"/p">>
    /\ Len(lastPaths[1].shown) = 1
    /\ lastPaths[1].kinds["/q"] \in {"file", "link"}

\* C13: no failure escapes to the host: every message of the webview is
\* handled without an uncaught exception, and every failure text handled
\* has become a Diagnostic.
C13_NoEscape ==
    /\ ~escaped
    /\ \A p \in ParserPaths : lastError[p] # <<>> => diagnostics[p] # <<>>

\* The catalog, the cache and the watched directories as ParserSelect.init
\* leaves them for the setting and the folders as they are.
Rebuilt ==
    /\ watched = SelectSeqOf(parserFolders, {d \in Folders : folderKind[d] = "dir"})
    /\ \A f \in Files : cache[f] = <<>>
    /\ \A p \in ParserPaths :
          catalog[p] = IF \E k \in DOMAIN watched : watched[k] = DirOf(p)
                       THEN ReadParser(disk, p) ELSE <<>>

\* C14: the catalog is rebuilt (init with the freshly validated list, the
\* whole cache dropped) once at activation and on every configuration
\* change that affects the parserFolders setting; a configuration change
\* that does not affect it leaves the catalog, the cache and the watched
\* directories as they are, and nothing else calls init.
C14_CatalogRebuilt ==
    [][LET handled == cfgEvents # <<>> /\ cfgEvents' = Tail(cfgEvents)
           started == ~activated /\ activated'
       IN  /\ started => (initCount' = 1 /\ Rebuilt')
           /\ (handled /\ Head(cfgEvents).affects) =>
                  (initCount' = initCount + 1 /\ Rebuilt')
           /\ (handled /\ ~Head(cfgEvents).affects) =>
                  UNCHANGED <<catalog, cache, watched, initCount>>
           /\ (~handled /\ ~started) => UNCHANGED <<watched, initCount>>]_vars

\* After activation one change of the setting and one of another setting
\* were handled, and a selection made since is still cached.
C14_Witness ==
    /\ initCount = 2 /\ cfgSeq >= 2 /\ cfgEvents = <<>>
    /\ \E f \in Files : cache[f] # <<>>

\* C15: openCustomDocument returns undefined when the selection finds no
\* parser or throws, and else a document with the opened uri and the
\* selected parser; every document that exists has a parser set.
C15_DocumentHasParser ==
    \A f \in Files :
        /\ doc[f] # <<>> =>
              /\ lastOpen[f] = "doc"
              /\ doc[f][1].uri = f
              /\ doc[f][1].parser.filePath \in ParserPaths
              /\ doc[f][1].parser.contents >= 0
              /\ FileExt(f) \in doc[f][1].parser.exts
        /\ lastOpen[f] \in {"undefined", "caught"} => doc[f] = <<>>
        /\ lastOpen[f] = "doc" => doc[f] # <<>>

\* One open found no parser, another one threw, both returned undefined.
C15_Witness ==
    \E f, g \in Files :
        /\ lastOpen[f] = "undefined" /\ doc[f] = <<>>
        /\ lastOpen[g] = "caught" /\ doc[g] = <<>>

\* C17: the line given to the diagnostics sink is never negative.
C17_LineNonNegative ==
    \A p \in ParserPaths :
        \A k \in DOMAIN diagnostics[p] : diagnostics[p][k].line >= 0

\* C16: for one open document every 'ready' is answered by exactly one
\* 'setData', which carries the parser contents captured when the document
\* was opened (whatever updateIfParserFile and init did since) and the
\* bytes of the file as they are on disk now; no other message is answered
\* by a 'setData'.
C16_OneSetDataPerReady ==
    [][\A f \in Files :
          /\ doc[f] # <<>> => doc'[f] = doc[f]
          /\ (inbox[f] # <<>> /\ inbox'[f] = Tail(inbox[f])) =>
                IF Head(inbox[f]).command = "ready"
                THEN outbox'[f] = Append(outbox[f],
                         [command |-> "setData",
                          parser |-> doc[f][1].parser.contents,
                          data |-> fileData[f]])
                ELSE outbox'[f] = outbox[f]]_vars


=============================================================================
